---- MODULE Spec2Model ----
(***************************************************************************)
(* Model of protmodel/aafeatures.py: the amino-acid feature table builder  *)
(* _res_to_feature_helper and its two presets JTTP01dist and AANDXred.     *)
(*                                                                         *)
(* Numbers.  A numpy float32 is modelled by an exact rational in lowest    *)
(* terms, or by one of the three IEEE specials nan, +inf, -inf that a      *)
(* division by zero produces (numpy warns and does not raise).  Rounding   *)
(* to single precision is not modelled.                                    *)
(*                                                                         *)
(* Objects.  A numpy array is a heap cell: heap maps a reference (a        *)
(* natural number) to the array's contents.  A dict maps keys to           *)
(* references and remembers the insertion order of its keys.               *)
(***************************************************************************)
EXTENDS Integers, Sequences, FiniteSets, TLC

VARIABLES feature_string, normalize, average, out, heap, writes, tables, first

vars == <<feature_string, normalize, average, out, heap, writes, tables, first>>

----------------------------------------------------------------------------
(* Bounds of the model *)

\* largest mantissa of a numeric token of a generated data line
MaxMant == 1
\* largest number of numeric fields of a generated data line
MaxLen == 2
\* largest number of preset calls in one behaviour
MaxCalls == 3
\* largest number of in-place writes by consumers in one behaviour
MaxWrites == 1

----------------------------------------------------------------------------
(* float32 values *)

Abs(x) == IF x < 0 THEN -x ELSE x

RECURSIVE GCD(_, _)
GCD(a, b) == IF b = 0 THEN a ELSE GCD(b, a % b)

RECURSIVE Pow10(_)
Pow10(s) == IF s = 0 THEN 1 ELSE 10 * Pow10(s - 1)

NaN == [k |-> "nan", n |-> 0, d |-> 1]
PInf == [k |-> "pinf", n |-> 0, d |-> 1]
NInf == [k |-> "ninf", n |-> 0, d |-> 1]

\* the rational n/d (d > 0) in lowest terms
Fin(n, d) ==
  LET g == GCD(Abs(n), d)
  IN  [k |-> "fin", n |-> n \div g, d |-> d \div g]

Zero == Fin(0, 1)

\* a + b on finite values
FAdd(a, b) ==
  LET l == (a.d \div GCD(a.d, b.d)) * b.d
  IN  Fin(a.n * (l \div a.d) + b.n * (l \div b.d), l)

\* a / s on finite values; IEEE result when s is zero
FDiv(a, s) ==
  IF s.n = 0
  THEN IF a.n > 0 THEN PInf ELSE IF a.n < 0 THEN NInf ELSE NaN
  ELSE LET g1 == GCD(Abs(a.n), Abs(s.n))
           g2 == GCD(a.d, s.d)
           num == (a.n \div g1) * (s.d \div g2)
           den == (a.d \div g2) * (s.n \div g1)
       IN  IF den < 0 THEN Fin(-num, -den) ELSE Fin(num, den)

\* the running sum acc of v[1..i-1] extended to all of v
RECURSIVE SumFrom(_, _, _)
SumFrom(v, i, acc) ==
  IF i > Len(v) \/ acc.k # "fin" THEN acc
  ELSE SumFrom(v, i + 1, FAdd(acc, v[i]))

\* ndarray.sum()
VSum(v) == SumFrom(v, 1, Zero)

\* np.full(count, value, dtype=FLOATTYPE)
Full(count, value) == [i \in 1..count |-> value]

\* np.mean([a, b], axis=0) on two arrays of the same length, or with a
\* one-element array stretched to the length of the other
Mean2(a, b) ==
  LET n == IF Len(a) = 1 THEN Len(b) ELSE Len(a)
      At(v, i) == IF Len(v) = 1 THEN v[1] ELSE v[i]
  IN  [i \in 1..n |-> FDiv(FAdd(At(a, i), At(b, i)), Fin(2, 1))]

\* array / array.sum()
DivBySum(v) ==
  LET total == VSum(v)
  IN  [i \in 1..Len(v) |-> FDiv(v[i], total)]

----------------------------------------------------------------------------
(* Raw text *)

\* A token of a data line: a decimal literal m * 10^-s, or a non-numeric word.
Tok(m, s) == [num |-> TRUE, m |-> m, s |-> s]
BadTok == [num |-> FALSE, m |-> 0, s |-> 0]

\* float(x) for a numeric token
float(tok) == Fin(tok.m, Pow10(tok.s))

\* A line of the text: kind "comment" when its first character is '#',
\* "blank" when split() yields nothing, "data" otherwise; aa and toks are
\* what split() yields (first word, remaining words).
DataLine(aa, toks) == [kind |-> "data", aa |-> aa, toks |-> toks]
CommentLine(aa, toks) == [kind |-> "comment", aa |-> aa, toks |-> toks]
BlankLine == [kind |-> "blank", aa |-> "", toks |-> <<>>]

MISSINGAA == "."

----------------------------------------------------------------------------
(* The builder's local state while _res_to_feature_helper runs:            *)
(*   err, code  the exception raised so far ("none" when none) and, for a  *)
(*              KeyError, the key it names                                 *)
(*   order, ref the dict aa_to_aadist: keys in insertion order, key -> ref *)
(*   cells      the arrays allocated by this call, ref -> contents         *)
(*   next       the next unused reference                                  *)
(*   fc         feature_count                                              *)

NoKeys == [x \in {} |-> 0]

Start(base) ==
  [err |-> "none", code |-> "", order |-> <<>>, ref |-> NoKeys,
   cells |-> NoKeys, next |-> base, fc |-> 0]

Raise(st, err, code) == [st EXCEPT !.err = err, !.code = code]

Has(st, aa) == aa \in DOMAIN st.ref

\* aa_to_aadist[aa]
Get(st, aa) == st.cells[st.ref[aa]]

\* aa_to_aadist[aa] = <the array r>
DictSet(st, aa, r) ==
  [st EXCEPT !.order = IF Has(st, aa) THEN @ ELSE Append(@, aa),
             !.ref = (aa :> r) @@ @]

\* aa_to_aadist[aa] = <a new array holding vec>
SetNew(st, aa, vec) ==
  DictSet([st EXCEPT !.cells = (st.next :> vec) @@ @, !.next = @ + 1],
          aa, st.next)

\* ParseLine taking feature_count from the first data line only
ParseLine_CountFromFirst(st, line) ==
  IF line.kind = "comment" THEN st
  ELSE IF line.kind = "blank" THEN Raise(st, "IndexError", "")
  ELSE IF \E i \in 1..Len(line.toks) : ~line.toks[i].num
       THEN Raise(st, "ValueError", "")
  ELSE LET vec == [i \in 1..Len(line.toks) |-> float(line.toks[i])]
       IN  [SetNew(st, line.aa, vec)
              EXCEPT !.fc = IF st.order = <<>> THEN Len(vec) ELSE st.fc]

\* ParseLine keeping the first row of a residue instead of the last
ParseLine_FirstWins(st, line) ==
  IF line.kind = "comment" THEN st
  ELSE IF line.kind = "blank" THEN Raise(st, "IndexError", "")
  ELSE IF \E i \in 1..Len(line.toks) : ~line.toks[i].num
       THEN Raise(st, "ValueError", "")
  ELSE LET vec == [i \in 1..Len(line.toks) |-> float(line.toks[i])]
       IN  IF Has(st, line.aa) THEN [st EXCEPT !.fc = Len(vec)]
           ELSE [SetNew(st, line.aa, vec) EXCEPT !.fc = Len(vec)]

\* one iteration of the loop over the lines of feature_string
ParseLine(st, line) ==
  IF line.kind = "comment" THEN st
  ELSE IF line.kind = "blank" THEN Raise(st, "IndexError", "")
  ELSE IF \E i \in 1..Len(line.toks) : ~line.toks[i].num
       THEN Raise(st, "ValueError", "")
  ELSE LET vec == [i \in 1..Len(line.toks) |-> float(line.toks[i])]
       IN  [SetNew(st, line.aa, vec) EXCEPT !.fc = Len(vec)]

\* the loop over the lines of feature_string
RECURSIVE ParseLines(_, _)
ParseLines(st, lines) ==
  IF st.err # "none" \/ lines = <<>> THEN st
  ELSE ParseLines(ParseLine(st, Head(lines)), Tail(lines))

\* Synonym that skips a residue the table lacks instead of raising
Synonym_Lenient(st, syn, aa) ==
  IF st.err # "none" THEN st
  ELSE IF ~Has(st, aa) THEN st
  ELSE DictSet(st, syn, st.ref[aa])

\* aa_to_aadist[syn] = aa_to_aadist[aa]: the same array, not a copy
Synonym(st, syn, aa) ==
  IF st.err # "none" THEN st
  ELSE IF ~Has(st, aa) THEN Raise(st, "KeyError", aa)
  ELSE DictSet(st, syn, st.ref[aa])

\* aa_to_aadist['X']
AnyResidue(st, avg) ==
  IF st.err # "none" THEN st
  ELSE IF avg
       THEN IF st.fc = 0 THEN Raise(st, "ZeroDivisionError", "")
            ELSE SetNew(st, "X", Full(st.fc, Fin(1, st.fc)))
       ELSE SetNew(st, "X", Full(st.fc, Zero))

\* What np.mean does with two rows of different lengths depends on the
\* numpy release: current releases raise ValueError; older ones add the
\* rows as objects, which stretches a one-element row and raises otherwise.
RaggedMean == {"raise", "broadcast"}

\* aa_to_aadist[amb] = np.mean([aa_to_aadist[a], aa_to_aadist[b]], axis=0)
Ambiguous(st, amb, a, b, ragged) ==
  IF st.err # "none" THEN st
  ELSE IF ~Has(st, a) THEN Raise(st, "KeyError", a)
  ELSE IF ~Has(st, b) THEN Raise(st, "KeyError", b)
  ELSE IF /\ Len(Get(st, a)) # Len(Get(st, b))
          /\ ~(ragged = "broadcast" /\ 1 \in {Len(Get(st, a)), Len(Get(st, b))})
       THEN Raise(st, "ValueError", "")
  ELSE SetNew(st, amb, Mean2(Get(st, a), Get(st, b)))

\* the loop "for aa in aa_to_aadist.keys()" from position i on
RECURSIVE Renormalize(_, _)
Renormalize(st, i) ==
  IF st.err # "none" \/ i > Len(st.order) THEN st
  ELSE Renormalize(SetNew(st, st.order[i], DivBySum(Get(st, st.order[i]))),
                   i + 1)

\* aa_to_aadist[MISSINGAA]
Missing(st) ==
  IF st.err # "none" THEN st
  ELSE SetNew(st, MISSINGAA, Full(st.fc, Zero))

\* Expand without the entry for pyrrolysine
Expand_NoPyrrolysine(st, avg, ragged) ==
  LET s1 == Synonym(st, "U", "C")
      s3 == AnyResidue(s1, avg)
      s4 == Ambiguous(s3, "B", "D", "N", ragged)
      s5 == Ambiguous(s4, "J", "I", "L", ragged)
  IN  Ambiguous(s5, "Z", "E", "Q", ragged)

\* the synonym and ambiguity entries: U, O, X, B, J, Z in this order
Expand(st, avg, ragged) ==
  LET s1 == Synonym(st, "U", "C")
      s2 == Synonym(s1, "O", "K")
      s3 == AnyResidue(s2, avg)
      s4 == Ambiguous(s3, "B", "D", "N", ragged)
      s5 == Ambiguous(s4, "J", "I", "L", ragged)
  IN  Ambiguous(s5, "Z", "E", "Q", ragged)

\* the builder adding '.' before the renormalization loop
res_to_feature_helper_MissingFirst(text, norm, avg, base, ragged) ==
  LET s1 == ParseLines(Start(base), text)
      s2 == Missing(Expand(s1, avg, ragged))
  IN  IF norm THEN Renormalize(s2, 1) ELSE s2

\* the builder renormalizing the parsed rows before it averages them
res_to_feature_helper_NormalizeFirst(text, norm, avg, base, ragged) ==
  LET s1 == ParseLines(Start(base), text)
      s2 == IF norm THEN Renormalize(s1, 1) ELSE s1
  IN  Missing(Expand(s2, avg, ragged))

\* _res_to_feature_helper, allocating its arrays from reference base on
res_to_feature_helper(text, norm, avg, base, ragged) ==
  LET s1 == ParseLines(Start(base), text)
      s2 == Expand(s1, avg, ragged)
      s3 == IF norm THEN Renormalize(s2, 1) ELSE s2
  IN  Missing(s3)

\* what the caller receives: the dict, or the exception
Returned(st) ==
  IF st.err = "none"
  THEN [status |-> "table", err |-> "none", code |-> "",
        order |-> st.order, ref |-> st.ref]
  ELSE [status |-> "error", err |-> st.err, code |-> st.code,
        order |-> <<>>, ref |-> NoKeys]

\* the arrays of this call that the returned dict still refers to
Live(st) ==
  IF st.err # "none" THEN NoKeys
  ELSE LET used == {st.ref[aa] : aa \in DOMAIN st.ref}
       IN  [r \in used |-> st.cells[r]]

----------------------------------------------------------------------------
(* The embedded tables and the presets built from them *)

\* a comment line of an embedded table; its words are not numbers
Hash == CommentLine("#", <<BadTok>>)

\* a data line whose numbers have five (four) decimals and integer part 0
Row5(aa, ms) == DataLine(aa, [i \in 1..Len(ms) |-> Tok(ms[i], 5)])
Row4(aa, ms) == DataLine(aa, [i \in 1..Len(ms) |-> Tok(ms[i], 4)])

JTT_P01_DATA ==
  << Hash,
     Hash,
     Hash,
     Hash,
     Row5("A", <<98754, 30, 23, 42, 11, 23, 65, 130, 6, 20, 28, 21, 13, 6,
            98, 257, 275, 1, 3, 194>>),
     Row5("R", <<44, 98974, 19, 8, 22, 125, 18, 99, 75, 12, 35, 376, 10, 2,
            37, 69, 37, 18, 6, 12>>),
     Row5("N", <<42, 23, 98720, 269, 7, 35, 36, 59, 89, 25, 11, 153, 7, 4, 8,
            342, 135, 1, 22, 11>>),
     Row5("D", <<62, 8, 223, 98954, 2, 20, 470, 95, 25, 6, 6, 15, 4, 2, 8,
            41, 23, 1, 15, 20>>),
     Row5("C", <<43, 58, 15, 5, 99432, 4, 3, 43, 16, 9, 21, 4, 7, 31, 7, 152,
            25, 16, 67, 41>>),
     Row5("Q", <<44, 159, 37, 25, 2, 98955, 198, 19, 136, 5, 66, 170, 10, 2,
            83, 37, 30, 3, 8, 13>>),
     Row5("E", <<80, 15, 25, 392, 1, 130, 99055, 87, 6, 6, 9, 105, 4, 2, 9,
            21, 19, 1, 2, 29>>),
     Row5("G", <<136, 70, 35, 67, 12, 11, 74, 99350, 5, 3, 6, 16, 3, 2, 13,
            137, 20, 8, 3, 31>>),
     Row5("H", <<21, 168, 165, 57, 14, 241, 16, 17, 98864, 9, 51, 27, 8, 16,
            58, 50, 27, 1, 182, 8>>),
     Row5("I", <<29, 11, 20, 6, 3, 4, 7, 4, 4, 98729, 209, 12, 113, 35, 5,
            27, 142, 1, 10, 627>>),
     Row5("L", <<23, 19, 5, 4, 5, 29, 6, 5, 13, 122, 99330, 8, 92, 99, 52,
            40, 15, 7, 8, 118>>),
     Row5("K", <<27, 331, 111, 14, 1, 118, 111, 20, 11, 11, 13, 99100, 15, 2,
            11, 32, 60, 1, 3, 9>>),
     Row5("M", <<42, 23, 13, 8, 6, 18, 11, 11, 7, 255, 354, 38, 98818, 17, 8,
            20, 131, 3, 6, 212>>),
     Row5("F", <<11, 3, 4, 2, 15, 2, 3, 4, 9, 47, 227, 2, 10, 99360, 9, 63,
            7, 8, 171, 41>>),
     Row5("P", <<148, 38, 7, 8, 3, 67, 11, 18, 26, 6, 93, 12, 4, 7, 99270,
            194, 69, 1, 3, 15>>),
     Row5("S", <<287, 52, 212, 31, 44, 22, 18, 146, 17, 21, 54, 27, 7, 37,
            144, 98556, 276, 5, 20, 25>>),
     Row5("T", <<360, 33, 98, 20, 8, 21, 20, 24, 11, 131, 24, 60, 53, 5, 60,
            324, 98665, 2, 7, 74>>),
     Row5("W", <<7, 65, 3, 2, 23, 8, 6, 40, 2, 5, 48, 6, 6, 21, 3, 24, 7,
            99686, 23, 17>>),
     Row5("Y", <<8, 10, 30, 24, 41, 10, 4, 6, 130, 17, 22, 5, 4, 214, 5, 43,
            12, 10, 99392, 11>>),
     Row5("V", <<226, 9, 7, 16, 12, 8, 27, 34, 3, 511, 165, 8, 76, 25, 12,
            26, 66, 4, 5, 98761>>) >>

AANDX_RED_DATA ==
  << Hash,
     Hash,
     Hash,
     Hash,
     Hash,
     Hash,
     Hash,
     Row4("A", <<-86, -1348, 4616, -693, 1245, -974, 1758, 425, 2240, 1468,
            -912>>),
     Row4("R", <<1397, 3740, -290, -32, -4022, 3185, 1816, 3274, -1455, 4340,
            -2502>>),
     Row4("N", <<2467, -20, -1151, 2287, -322, -1215, -1339, -3356, -33,
            -2867, -1238>>),
     Row4("D", <<3026, 614, -23, 811, 2997, -1711, -4602, 907, -1318, 992,
            -255>>),
     Row4("C", <<-1503, -1747, -1930, 4813, 4372, 4583, 1800, 2741, -785,
            -2256, -1828>>),
     Row4("Q", <<1270, 2193, 536, -103, 349, 1008, 496, -220, 287, -725,
            4633>>),
     Row4("E", <<2014, 2729, 3149, -1269, 3462, -1152, -2567, 2072, -1719,
            386, -749>>),
     Row4("G", <<2582, -5223, 341, 2440, -2662, -4457, 2783, 2544, -2370,
            1021, 928>>),
     Row4("H", <<23, 2077, -1324, 1457, 366, -474, 2001, -5542, -2003, 2052,
            -2896>>),
     Row4("I", <<-3345, -1388, 757, -1287, -1306, 775, -2226, 80, -2496,
            -1335, 1711>>),
     Row4("L", <<-2815, -861, 3156, -2161, -557, -854, 425, -703, 1102,
            -2310, -4548>>),
     Row4("K", <<1992, 3118, 1614, -439, -2640, 542, 2554, 503, 733, -6013,
            1052>>),
     Row4("M", <<-2663, 1253, 926, 394, 2740, -860, 3623, -2100, -1066, 1995,
            4918>>),
     Row4("F", <<-3107, 119, -1117, -762, -329, -1889, -443, -1427, -783,
            1215, -1622>>),
     Row4("P", <<2705, -2761, -4103, -7141, 2161, 1550, 2039, -110, -497,
            -300, -256>>),
     Row4("S", <<2019, -1961, 362, 1371, -814, 1391, -797, -2065, 3989, 274,
            -91>>),
     Row4("T", <<746, -1420, 49, 502, -1324, 2717, -2266, -1473, 4486, 2869,
            1665>>),
     Row4("W", <<-2810, 2159, -3641, 102, 718, -3854, 207, 3707, 5100, 159,
            -143>>),
     Row4("Y", <<-1292, 776, -3624, 262, -2818, -1042, -2738, -24, -1705,
            -1251, 1127>>),
     Row4("V", <<-2620, -2049, 1697, -551, -1616, 2734, -2523, 767, -1707,
            286, 1008>>) >>

\* the first reference no array of the heap uses
NextRef ==
  IF DOMAIN heap = {} THEN 0
  ELSE 1 + CHOOSE r \in DOMAIN heap : \A q \in DOMAIN heap : q <= r

\* a preset that keeps the table of its first call and hands it out again
Memoized(name, fresh) ==
  IF \E t \in 1..Len(tables) : tables[t].preset = name
  THEN LET t == CHOOSE t \in 1..Len(tables) : tables[t].preset = name
       IN  [fresh EXCEPT !.order = tables[t].order, !.ref = tables[t].ref,
                         !.cells = heap]
  ELSE fresh

JTTP01dist_Memoized(ragged) ==
  Memoized("JTTP01dist",
           res_to_feature_helper(JTT_P01_DATA, TRUE, TRUE, NextRef, ragged))

\* JTTP01dist()
JTTP01dist(ragged) ==
  res_to_feature_helper(JTT_P01_DATA, TRUE, TRUE, NextRef, ragged)

\* AANDXred()
AANDXred(ragged) ==
  res_to_feature_helper(AANDX_RED_DATA, FALSE, FALSE, NextRef, ragged)

----------------------------------------------------------------------------
(* Raw texts fed to the builder: a synthetic table of the 20 standard      *)
(* residues with two features each, optionally with one row removed, one   *)
(* line put in front of it and one line put after it.                      *)

StdCodes ==
  <<"A", "R", "N", "D", "C", "Q", "E", "G", "H", "I",
    "L", "K", "M", "F", "P", "S", "T", "W", "Y", "V">>

Standard == {StdCodes[i] : i \in 1..Len(StdCodes)}

BaseNeeded == {"C", "K", "D", "N", "I", "L", "E", "Q"}

Derived == {"U", "O", "X", "B", "J", "Z"}

BaseRow(i) == DataLine(StdCodes[i], <<Tok((i % 3) + 1, 0), Tok((2 * i) % 3, 0)>>)

\* the rows of the synthetic table, without row number drop (0: all rows)
BaseText(drop) ==
  LET keep == IF drop = 0 THEN Len(StdCodes) ELSE Len(StdCodes) - 1
  IN  [i \in 1..keep |-> BaseRow(IF drop # 0 /\ i >= drop THEN i + 1 ELSE i)]

Toks == {Tok(m, 0) : m \in (-1)..MaxMant} \cup {Tok(5, 1), BadTok}

TokVecs == UNION {[1..n -> Toks] : n \in 0..MaxLen}

Drops == {0, 1, 3, 4, 5, 12}

FrontLines ==
  { CommentLine("C", <<BadTok>>),
    DataLine("A", <<Tok(1, 0)>>),
    DataLine("D", <<Tok(0, 0), Tok(1, 0)>>),
    DataLine(".", <<Tok(1, 0), Tok(1, 0)>>) }

BackLines ==
  {DataLine("D", toks) : toks \in TokVecs}
    \cup { DataLine("C", <<Tok(0, 0), Tok(0, 0)>>),
           DataLine("C", <<Tok(1, 0), Tok(-1, 0)>>),
           DataLine("C", <<Tok(5, 1), Tok(1, 0)>>),
           DataLine("A", <<Tok(1, 0)>>),
           DataLine("Ala", <<Tok(1, 0), Tok(1, 0)>>),
           DataLine("Ala", <<>>),
           DataLine(".", <<Tok(1, 0), Tok(1, 0)>>),
           DataLine(".", <<Tok(0, 0)>>),
           BlankLine,
           CommentLine("D", <<Tok(1, 0), Tok(1, 0)>>) }

Opt(S) == {<<>>} \cup {<<x>> : x \in S}

Pending ==
  [status |-> "pending", err |-> "none", code |-> "",
   order |-> <<>>, ref |-> NoKeys]

\* the value a consumer stores when it changes an array in place
Scribble == Fin(7, 1)

----------------------------------------------------------------------------
(* One call of _res_to_feature_helper on a generated raw text, followed by *)
(* in-place writes of a consumer into the arrays of the returned table.    *)

Init ==
  /\ \E front \in Opt(FrontLines), back \in Opt(BackLines), drop \in Drops :
        feature_string = front \o BaseText(drop) \o back
  /\ normalize \in BOOLEAN
  /\ average \in BOOLEAN
  /\ out = Pending
  /\ heap = NoKeys
  /\ writes = 0
  /\ tables = <<>>
  /\ first = NoKeys

\* table = _res_to_feature_helper(feature_string, normalize, average)
Build ==
  /\ out.status = "pending"
  /\ \E ragged \in RaggedMean :
       LET st == res_to_feature_helper(feature_string, normalize, average,
                                       0, ragged)
       IN  /\ out' = Returned(st)
           /\ heap' = Live(st)
  /\ UNCHANGED <<feature_string, normalize, average, writes, tables, first>>

\* table[aa][0] = 7.0 by a consumer of the returned table
WriteEntry ==
  /\ out.status = "table"
  /\ writes < MaxWrites
  /\ \E aa \in {"U", "O"} :
        /\ Len(heap[out.ref[aa]]) > 0
        /\ heap[out.ref[aa]][1] # Scribble
        /\ heap' = [heap EXCEPT ![out.ref[aa]][1] = Scribble]
  /\ writes' = writes + 1
  /\ UNCHANGED <<feature_string, normalize, average, out, tables, first>>

Next == Build \/ WriteEntry

Spec == Init /\ [][Next]_vars

----------------------------------------------------------------------------
(* Any number of calls of the two presets, and consumers writing in place  *)
(* into the arrays of the tables they were handed.                         *)

InitPresets ==
  /\ feature_string = <<>>
  /\ normalize = FALSE
  /\ average = FALSE
  /\ out = Pending
  /\ heap = NoKeys
  /\ writes = 0
  /\ tables = <<>>
  /\ first = NoKeys

\* the values of a table the builder is about to return
Snapshot(st) == [aa \in DOMAIN st.ref |-> st.cells[st.ref[aa]]]

\* a caller receives the table st of the preset name
Hand(name, st) ==
  /\ Len(tables) < MaxCalls
  /\ st.err = "none"
  /\ tables' = Append(tables, [preset |-> name, order |-> st.order, ref |-> st.ref])
  /\ heap' = Live(st) @@ heap
  /\ first' = IF name \in DOMAIN first THEN first
              ELSE (name :> Snapshot(st)) @@ first
  /\ UNCHANGED <<feature_string, normalize, average, out, writes>>

CallJTTP01dist == \E ragged \in RaggedMean : Hand("JTTP01dist", JTTP01dist(ragged))

CallAANDXred == \E ragged \in RaggedMean : Hand("AANDXred", AANDXred(ragged))

\* tables[t][aa][0] = 7.0 by a consumer of an earlier table
ConsumerWrite ==
  /\ writes < MaxWrites
  /\ \E t \in 1..Len(tables), aa \in {"C", "U", "X", MISSINGAA} :
        /\ heap[tables[t].ref[aa]][1] # Scribble
        /\ heap' = [heap EXCEPT ![tables[t].ref[aa]][1] = Scribble]
  /\ writes' = writes + 1
  /\ UNCHANGED <<feature_string, normalize, average, out, tables, first>>

NextPresets == CallJTTP01dist \/ CallAANDXred \/ ConsumerWrite

PresetSpec == InitPresets /\ [][NextPresets]_vars

----------------------------------------------------------------------------
(* Vocabulary of the properties: the returned table and, computed from the *)
(* raw text alone in integer tenths, what its rows say.                    *)

IsTable == out.status = "table"

Keys == DOMAIN out.ref

\* table[aa]
Tbl(aa) == heap[out.ref[aa]]

All27 == Standard \cup Derived \cup {MISSINGAA}

DataLinesOf(text) == SelectSeq(text, LAMBDA l : l.kind = "data")

DataRows == DataLinesOf(feature_string)

DataKeys == {DataRows[i].aa : i \in 1..Len(DataRows)}

FirstCount == IF DataRows = <<>> THEN 0 ELSE Len(DataRows[1].toks)

LastCount == IF DataRows = <<>> THEN 0 ELSE Len(DataRows[Len(DataRows)].toks)

Uniform == \A i \in 1..Len(DataRows) : Len(DataRows[i].toks) = FirstCount

HasBadToken ==
  \E i \in 1..Len(DataRows) : \E j \in 1..Len(DataRows[i].toks) :
    ~DataRows[i].toks[j].num

HasBlank == \E i \in 1..Len(feature_string) : feature_string[i].kind = "blank"

MissingBase == ~(BaseNeeded \subseteq DataKeys)

\* the last data line that starts with aa
LastFor(aa) ==
  LET rows == SelectSeq(DataRows, LAMBDA l : l.aa = aa)
  IN  rows[Len(rows)]

\* a numeric token in tenths (the generated tokens have at most one decimal)
Tenths(tok) == IF tok.s = 0 THEN 10 * tok.m ELSE tok.m

\* the numbers of the last data line of aa, in tenths
RowTenths(aa) ==
  LET toks == LastFor(aa).toks
  IN  [i \in 1..Len(toks) |-> Tenths(toks[i])]

RECURSIVE IntSum(_)
IntSum(u) == IF u = <<>> THEN 0 ELSE Head(u) + IntSum(Tail(u))

\* q is the float32 quotient num / den of two integers
IsRatio(q, num, den) ==
  IF den = 0
  THEN q.k = (IF num > 0 THEN "pinf" ELSE IF num < 0 THEN "ninf" ELSE "nan")
  ELSE q.k = "fin" /\ q.n * den = num * q.d

\* vec holds u / unit, divided by its own sum when normalize is set
Matches(vec, u, unit) ==
  /\ Len(vec) = Len(u)
  /\ \A i \in 1..Len(u) :
       IsRatio(vec[i], u[i], IF normalize THEN IntSum(u) ELSE unit)

AllFinite(vec) == \A i \in 1..Len(vec) : vec[i].k = "fin"

----------------------------------------------------------------------------
(* Vector lengths *)

\* C1 as stated: every vector of a returned table has as many components
\* as the FIRST data line of the raw text has numeric fields.
C1_FirstLineCount ==
  IsTable => \A aa \in Keys : Len(Tbl(aa)) = FirstCount

\* C1 amended: X and '.' have as many components as the LAST data line has
\* numeric fields, every parsed row has as many as its own last line, and
\* when all data lines carry the same number of fields every vector of the
\* table has that length.
C1_LastLineCount ==
  IsTable =>
    /\ Len(Tbl("X")) = LastCount
    /\ Len(Tbl(MISSINGAA)) = LastCount
    /\ \A aa \in DataKeys \ (Derived \cup {MISSINGAA}) :
         Len(Tbl(aa)) = Len(LastFor(aa).toks)
    /\ Uniform => \A aa \in Keys : Len(Tbl(aa)) = FirstCount

C1_Witness == IsTable /\ FirstCount # LastCount /\ normalize

----------------------------------------------------------------------------
(* Key set *)

\* C2 as stated: the key set of every returned table is exactly the 27 codes.
C2_Exactly27 == IsTable => Keys = All27

\* C2 amended: the key set is the set of first words of the data lines
\* together with U, O, X, B, J, Z and '.'; it is exactly the 27 codes when
\* the data lines cover the 20 standard letters and start with no word
\* outside the 27 codes.
C2_KeysFromRows ==
  IsTable =>
    /\ Keys = DataKeys \cup Derived \cup {MISSINGAA}
    /\ (Standard \subseteq DataKeys /\ DataKeys \subseteq All27) => Keys = All27

C2_Witness == IsTable /\ Keys = All27 /\ MISSINGAA \in DataKeys

----------------------------------------------------------------------------
(* Normalization *)

\* C3: in a table built with normalize=true every entry but '.' sums to 1.
C3_SumsToOne ==
  (IsTable /\ normalize /\ writes = 0) =>
    \A aa \in Keys \ {MISSINGAA} :
      AllFinite(Tbl(aa)) /\ VSum(Tbl(aa)) = Fin(1, 1)

\* C4: with normalize=true a zero-sum entry (the all-zero X of
\* average=false in particular) aborts the build; no returned table holds
\* the result of a division by zero.
C4_ZeroSumAborts ==
  IsTable =>
    /\ normalize => average
    /\ \A aa \in Keys : AllFinite(Tbl(aa))

----------------------------------------------------------------------------
(* Synonyms *)

\* C5: U and O equal C and K by value in the returned table, and an
\* in-place change of U or O never changes C or K.
C5_SynonymsAreCopies ==
  [][IsTable =>
       /\ writes = 0 => (Tbl("U") = Tbl("C") /\ Tbl("O") = Tbl("K"))
       /\ heap'[out.ref["C"]] = heap[out.ref["C"]]
       /\ heap'[out.ref["K"]] = heap[out.ref["K"]]]_vars

----------------------------------------------------------------------------
(* Missing marker *)

\* C6: in every returned table '.' is the all-zero vector of length
\* feature_count (the field count of the last data line), for every
\* normalize/average setting and even when the raw text has a row for '.'.
C6_MissingIsZero ==
  IsTable => Tbl(MISSINGAA) = [i \in 1..LastCount |-> Zero]

C6_Witness ==
  IsTable /\ normalize /\ MISSINGAA \in DataKeys /\ LastCount > 0

----------------------------------------------------------------------------
(* Ambiguity entries *)

AmbPairs == {<<"B", "D", "N">>, <<"J", "I", "L">>, <<"Z", "E", "Q">>}

\* component i of a row, a one-element row standing for any length
Stretch(row, i) == IF Len(row) = 1 THEN row[1] ELSE row[i]

\* the sum of the last rows of a and b, in tenths
PairTenths(a, b) ==
  LET n == IF Len(RowTenths(a)) = 1 THEN Len(RowTenths(b))
           ELSE Len(RowTenths(a))
  IN  [i \in 1..n |-> Stretch(RowTenths(a), i) + Stretch(RowTenths(b), i)]

\* m = (x + y) / 2 on finite values
IsMeanOf(m, x, y) ==
  /\ m.k = "fin" /\ x.k = "fin" /\ y.k = "fin"
  /\ 2 * m.n * x.d * y.d = m.d * (x.n * y.d + y.n * x.d)

\* C7: B, J and Z are the elementwise mean of the raw rows of D,N / I,L /
\* E,Q, divided by that mean's own sum exactly when normalize is set; with
\* normalize=false B is the mean of table['D'] and table['N'].
C7_AverageThenNormalize ==
  IsTable =>
    \A p \in AmbPairs :
      /\ Matches(Tbl(p[1]), PairTenths(p[2], p[3]), 20)
      /\ ~normalize =>
           \A i \in 1..Len(Tbl(p[1])) :
             IsMeanOf(Tbl(p[1])[i], Stretch(Tbl(p[2]), i), Stretch(Tbl(p[3]), i))

C7_Witness ==
  /\ IsTable /\ normalize
  /\ AllFinite(Tbl("B")) /\ AllFinite(Tbl("D")) /\ AllFinite(Tbl("N"))
  /\ Tbl("B") # Mean2(Tbl("D"), Tbl("N"))

----------------------------------------------------------------------------
(* Construction failures *)

LookupOrder == <<"C", "K", "D", "N", "I", "L", "E", "Q">>

\* the first residue, in the order the builder looks them up, without a row
FirstAbsent ==
  LET i == CHOOSE i \in 1..Len(LookupOrder) :
             /\ LookupOrder[i] \notin DataKeys
             /\ \A j \in 1..(i - 1) : LookupOrder[j] \in DataKeys
  IN  LookupOrder[i]

\* C8 as stated: a non-numeric token or a missing base residue aborts the
\* build without a table, and a missing base residue aborts it with an
\* error naming an absent code.
C8_MissingAlwaysNamed ==
  out.status # "pending" =>
    /\ (HasBadToken \/ MissingBase) => out.status = "error"
    /\ (MissingBase /\ ~HasBadToken) =>
         (out.err = "KeyError" /\ out.code \in BaseNeeded \ DataKeys)

\* C8 amended: a non-numeric token or a missing base residue aborts the
\* build without a table; a KeyError always names an absent base residue;
\* and a missing base residue yields the KeyError naming the first absent
\* code in the order C, K, D, N, I, L, E, Q when no other step fails before
\* the lookup: no non-numeric token, no blank line, all data lines with the
\* same number of fields, and at least one field unless average=false.
C8_FailuresAreAtomic ==
  out.status # "pending" =>
    /\ (HasBadToken \/ MissingBase) =>
         (out.status = "error" /\ Keys = {} /\ heap = NoKeys)
    /\ out.err = "KeyError" => out.code \in BaseNeeded \ DataKeys
    /\ (MissingBase /\ ~HasBadToken /\ ~HasBlank /\ Uniform
          /\ (FirstCount > 0 \/ ~average)) =>
         (out.err = "KeyError" /\ out.code = FirstAbsent)

C8_Witness ==
  /\ out.status = "error" /\ out.err = "KeyError" /\ out.code = "K"
  /\ ~HasBadToken /\ normalize

----------------------------------------------------------------------------
(* Duplicate rows and comments *)

\* C9: the entry of a standard letter with several data lines comes from
\* the last of them (divided by its sum when normalize is set), so do the
\* entries derived from it (U, O from C, K; B from D and N), and comment
\* lines contribute nothing.
C9_LastWriteWins ==
  (IsTable /\ writes = 0) =>
    /\ \A aa \in Standard \cap DataKeys : Matches(Tbl(aa), RowTenths(aa), 10)
    /\ Matches(Tbl("U"), RowTenths("C"), 10)
    /\ Matches(Tbl("O"), RowTenths("K"), 10)
    /\ Matches(Tbl("B"), PairTenths("D", "N"), 20)

C9_Witness ==
  /\ IsTable /\ normalize /\ writes = 0
  /\ \E i, j \in 1..Len(DataRows) :
       /\ i < j
       /\ DataRows[i].aa = "D" /\ DataRows[j].aa = "D"
       /\ DataRows[i].toks # DataRows[j].toks

----------------------------------------------------------------------------
(* Presets *)

RefsOf(t) == {tables[t].ref[aa] : aa \in DOMAIN tables[t].ref}

\* C10: whatever calls and in-place writes came before, the table a preset
\* call returns equals by value the table of that preset's first call, and
\* none of its vectors is a vector of a table returned earlier.
C10_CallsAreIndependent ==
  [][Len(tables') > Len(tables) =>
       LET new == tables'[Len(tables')]
       IN  /\ [aa \in DOMAIN new.ref |-> heap'[new.ref[aa]]] = first'[new.preset]
           /\ \A t \in 1..Len(tables) :
                {new.ref[aa] : aa \in DOMAIN new.ref} \cap RefsOf(t) = {}
           /\ \A r \in DOMAIN heap : heap'[r] = heap[r]]_vars

C10_Witness ==
  \E t \in 1..Len(tables), u \in 1..Len(tables) :
    /\ t < u
    /\ tables[t].preset = tables[u].preset
    /\ heap[tables[t].ref["U"]][1] = Scribble
    /\ heap[tables[u].ref["U"]][1] # Scribble

====
